---- MODULE Spec2Model ----
(***************************************************************************)
(* Transcript post-processing of the ASR service:                          *)
(*   asr_service/postprocess.py  (and its port funasr/utils.py)            *)
(*                                                                         *)
(* A text is a sequence of characters; a character is written as a short   *)
(* ASCII string.  Legend (code point, name used here):                     *)
(*   filler words   U+5443 "e"   U+55EF "en"  U+554A "a"   U+54CE "ai"     *)
(*                  U+989D "e2"  U+5662 "o"   U+54E6 "o2"  U+5440 "ya"     *)
(*                  U+8BF6 "ei"  U+5509 "ai2"                              *)
(*   punctuation    U+FF0C "FWCOMMA"  U+3001 "DUN"  U+3002 "FWSTOP"        *)
(*                  ","  "."  "%"                                          *)
(*   whitespace     " "  "\n"                                              *)
(*   numerals       U+96F6 "ling" U+4E00 "yi"  U+4E8C "er"  U+4E09 "san"   *)
(*                  U+56DB "si"   U+4E94 "wu"  U+516D "liu" U+4E03 "qi"    *)
(*                  U+516B "ba"   U+4E5D "jiu" U+4E24 "liang"              *)
(*                  U+3007 "O" (not in U+4E00..U+9FA5)                     *)
(*                  U+5341 "shi"  U+767E "bai" U+5343 "qian"               *)
(*   other CJK      U+5206 "fen"  U+4E4B "zhi" U+70B9 "dian" U+5E74 "nian" *)
(*                  U+4EBF "yi4"  U+4E07 "wan" U+5BB6 "jia"  U+4E2A "ge"   *)
(*                  U+4EBA "ren"  U+5BF9 "dui" U+77E5 "zhi1" U+9053 "dao"  *)
(*                  U+597D "hao"  U+7684 "de"                              *)
(*   ASCII          "0".."9"  "\\"  "d"  "x"                               *)
(***************************************************************************)
EXTENDS Integers, Sequences, FiniteSets, TLC

VARIABLES
    call,            \* the entry point invoked on the text
    pc,              \* position of the text call
    raw,             \* the text the call was given
    text,            \* the local variable `text` of the running call
    apply_itn_flag,  \* postprocess's flag argument
    order,           \* iteration order of the set FILLER_WORDS in this process
    module,          \* which copy of the pipeline runs
    mpc,             \* position of the merge_speaker_segments call
    segments,        \* its argument, the caller's list
    merged,          \* its return value
    requests,        \* the postprocess calls of the in-flight transcription
                     \* requests: for each its position, argument, flag and
                     \* local variable text
    server,          \* the service process: which app it runs, whether the
                     \* funasr package can be imported, its phase, the global
                     \* model and the last status code of /health
    handler,         \* the /asr/transcribe handler: its position, the request's
                     \* file and audio_url, and the status code of the answer
    tmp_dirs         \* the temporary directories that exist

vars == <<call, pc, raw, text, apply_itn_flag, order, module, mpc, segments, merged,
          requests, server, handler, tmp_dirs>>

----------------------------------------------------------------------------
(* Character classes                                                       *)

FILLER_WORDS == {"e", "en", "a", "ai", "e2", "o", "o2", "ya", "ei", "ai2"}

\* [U+FF0C U+3001 ,] of the two filler regexes
SEP == {"FWCOMMA", "DUN", ","}

\* \s and str.strip(): whitespace
WS == {" ", "\n"}

\* the keys of cn_nums
CN_DIGITS == {"ling", "yi", "er", "san", "si", "wu", "liu", "qi", "ba", "jiu",
              "liang", "O"}

\* [一-龥]
CJK == FILLER_WORDS \cup (CN_DIGITS \ {"O"}) \cup
       {"shi", "bai", "qian", "fen", "zhi", "dian", "nian", "yi4", "wan",
        "jia", "ge", "ren", "dui", "zhi1", "dao", "hao", "de"}

ASCII_DIGITS == {"0", "1", "2", "3", "4", "5", "6", "7", "8", "9"}

----------------------------------------------------------------------------
(* Sequence helpers                                                        *)

Drop(s, n) == SubSeq(s, n + 1, Len(s))

\* all sequences over alphabet of length at most n
RECURSIVE SeqsUpTo(_, _)
SeqsUpTo(alphabet, n) ==
    IF n = 0 THEN {<<>>}
    ELSE LET shorter == SeqsUpTo(alphabet, n - 1)
         IN  shorter \cup {Append(s, c) : s \in {t \in shorter : Len(t) = n - 1},
                                          c \in alphabet}

\* first index >= i whose character is not whitespace (\s* is greedy)
RECURSIVE SkipWs(_, _)
SkipWs(s, i) == IF i <= Len(s) /\ s[i] \in WS THEN SkipWs(s, i + 1) ELSE i

\* first index >= i whose character is not c
RECURSIVE RunEnd(_, _, _)
RunEnd(s, c, i) == IF i <= Len(s) /\ s[i] = c THEN RunEnd(s, c, i + 1) ELSE i

\* first index >= i whose character is not in class
RECURSIVE ClassEnd(_, _, _)
ClassEnd(s, class, i) ==
    IF i <= Len(s) /\ s[i] \in class THEN ClassEnd(s, class, i + 1) ELSE i

\* str.strip()
RECURSIVE StripLeft(_)
StripLeft(s) == IF Len(s) > 0 /\ s[1] \in WS THEN StripLeft(Tail(s)) ELSE s

RECURSIVE StripRight(_)
StripRight(s) ==
    IF Len(s) > 0 /\ s[Len(s)] \in WS THEN StripRight(SubSeq(s, 1, Len(s) - 1))
    ELSE s

Strip(s) == StripRight(StripLeft(s))

----------------------------------------------------------------------------
(* clean_filler_words                                                      *)

\* variant: the separator after the leading filler is required, not optional
SubLeadingFiller_SepRequired(s, filler) ==
    IF Len(s) >= 2 /\ s[1] = filler /\ s[2] \in SEP
    THEN Drop(s, SkipWs(s, 3) - 1)
    ELSE s

\* re.sub(rf'^{filler}[...]?\s*', '', text)
SubLeadingFiller(s, filler) ==
    IF Len(s) >= 1 /\ s[1] = filler
    THEN LET j == IF Len(s) >= 2 /\ s[2] \in SEP THEN 3 ELSE 2
         IN  Drop(s, SkipWs(s, j) - 1)
    ELSE s

\* re.sub(rf'[...]\s*{filler}[...]', FWCOMMA, text), scanning from index i
RECURSIVE SubSandwichFrom(_, _, _)
SubSandwichFrom(s, filler, i) ==
    IF i > Len(s) THEN <<>>
    ELSE LET j == SkipWs(s, i + 1)
         IN  IF s[i] \in SEP /\ j + 1 <= Len(s) /\ s[j] = filler /\ s[j + 1] \in SEP
             THEN <<"FWCOMMA">> \o SubSandwichFrom(s, filler, j + 2)
             ELSE <<s[i]>> \o SubSandwichFrom(s, filler, i + 1)

\* variant: the class after the filler lacks the full-width comma
RECURSIVE SubSandwichFrom_NoFwRight(_, _, _)
SubSandwichFrom_NoFwRight(s, filler, i) ==
    IF i > Len(s) THEN <<>>
    ELSE LET j == SkipWs(s, i + 1)
         IN  IF /\ s[i] \in SEP /\ j + 1 <= Len(s) /\ s[j] = filler
                /\ s[j + 1] \in SEP \ {"FWCOMMA"}
             THEN <<"FWCOMMA">> \o SubSandwichFrom_NoFwRight(s, filler, j + 2)
             ELSE <<s[i]>> \o SubSandwichFrom_NoFwRight(s, filler, i + 1)

SubSandwichedFiller_NoFwRight(s, filler) == SubSandwichFrom_NoFwRight(s, filler, 1)

SubSandwichedFiller(s, filler) == SubSandwichFrom(s, filler, 1)

\* re.sub(rf'{filler}{{2,}}', '', text), scanning from index i
RECURSIVE SubRunsFrom(_, _, _)
SubRunsFrom(s, filler, i) ==
    IF i > Len(s) THEN <<>>
    ELSE LET e == RunEnd(s, filler, i)
         IN  IF e - i >= 2 THEN SubRunsFrom(s, filler, e)
             ELSE <<s[i]>> \o SubRunsFrom(s, filler, i + 1)

\* variant: a run is replaced by one token instead of the empty string
RECURSIVE SubRunsFrom_KeepOne(_, _, _)
SubRunsFrom_KeepOne(s, filler, i) ==
    IF i > Len(s) THEN <<>>
    ELSE LET e == RunEnd(s, filler, i)
         IN  IF e - i >= 2 THEN <<filler>> \o SubRunsFrom_KeepOne(s, filler, e)
             ELSE <<s[i]>> \o SubRunsFrom_KeepOne(s, filler, i + 1)

SubFillerRuns_KeepOne(s, filler) == SubRunsFrom_KeepOne(s, filler, 1)

SubFillerRuns(s, filler) == SubRunsFrom(s, filler, 1)

\* the first loop over FILLER_WORDS, in iteration order ord
RECURSIVE FillerLoop1(_, _)
FillerLoop1(s, ord) ==
    IF ord = <<>> THEN s
    ELSE FillerLoop1(SubSandwichedFiller(SubLeadingFiller(s, Head(ord)), Head(ord)),
                     Tail(ord))

\* the second loop over FILLER_WORDS, in the same iteration order
RECURSIVE FillerLoop2(_, _)
FillerLoop2(s, ord) ==
    IF ord = <<>> THEN s
    ELSE FillerLoop2(SubFillerRuns(s, Head(ord)), Tail(ord))

clean_filler_words(s, ord) == Strip(FillerLoop2(FillerLoop1(s, ord), ord))

----------------------------------------------------------------------------
(* merge_repetitions                                                       *)

\* number of consecutive copies of unit in s starting at index i
RECURSIVE CountReps(_, _, _)
CountReps(s, unit, i) ==
    IF i + Len(unit) - 1 <= Len(s) /\ SubSeq(s, i, i + Len(unit) - 1) = unit
    THEN 1 + CountReps(s, unit, i + Len(unit))
    ELSE 0

\* re.sub(r'([CJK])\1{2,}', r'\1', text), scanning from index i
RECURSIVE SubCharRunsFrom(_, _)
SubCharRunsFrom(s, i) ==
    IF i > Len(s) THEN <<>>
    ELSE IF s[i] \in CJK /\ CountReps(s, <<s[i]>>, i + 1) >= 2
         THEN <<s[i]>> \o SubCharRunsFrom(s, i + 1 + CountReps(s, <<s[i]>>, i + 1))
         ELSE <<s[i]>> \o SubCharRunsFrom(s, i + 1)

SubCharRuns(s) == SubCharRunsFrom(s, 1)

\* re.sub(r'([CJK]{1,2})\1{2,}', r'\1', text), scanning from index i: the
\* group is tried with two characters first, then with one
RECURSIVE SubWordRunsFrom(_, _)
SubWordRunsFrom(s, i) ==
    IF i > Len(s) THEN <<>>
    ELSE LET two  == i + 1 <= Len(s) /\ s[i] \in CJK /\ s[i + 1] \in CJK
             w2   == SubSeq(s, i, i + 1)
             r2   == IF two THEN CountReps(s, w2, i + 2) ELSE 0
             r1   == IF s[i] \in CJK THEN CountReps(s, <<s[i]>>, i + 1) ELSE 0
         IN  IF r2 >= 2 THEN w2 \o SubWordRunsFrom(s, i + 2 + 2 * r2)
             ELSE IF r1 >= 2 THEN <<s[i]>> \o SubWordRunsFrom(s, i + 1 + r1)
             ELSE <<s[i]>> \o SubWordRunsFrom(s, i + 1)

\* variant: \1{1,} instead of \1{2,}, two occurrences already collapse
RECURSIVE SubWordRunsFrom_Twice(_, _)
SubWordRunsFrom_Twice(s, i) ==
    IF i > Len(s) THEN <<>>
    ELSE LET two  == i + 1 <= Len(s) /\ s[i] \in CJK /\ s[i + 1] \in CJK
             w2   == SubSeq(s, i, i + 1)
             r2   == IF two THEN CountReps(s, w2, i + 2) ELSE 0
             r1   == IF s[i] \in CJK THEN CountReps(s, <<s[i]>>, i + 1) ELSE 0
         IN  IF r2 >= 1 THEN w2 \o SubWordRunsFrom_Twice(s, i + 2 + 2 * r2)
             ELSE IF r1 >= 1 THEN <<s[i]>> \o SubWordRunsFrom_Twice(s, i + 1 + r1)
             ELSE <<s[i]>> \o SubWordRunsFrom_Twice(s, i + 1)

SubWordRuns_Twice(s) == SubWordRunsFrom_Twice(s, 1)

SubWordRuns(s) == SubWordRunsFrom(s, 1)

\* variant: the second substitution is missing
merge_repetitions_CharsOnly(s) == SubCharRuns(s)

merge_repetitions(s) == SubWordRuns(SubCharRuns(s))

----------------------------------------------------------------------------
(* apply_itn                                                               *)

cn_nums(c) ==
    CASE c \in {"ling", "O"}  -> 0
      [] c = "yi"             -> 1
      [] c \in {"er", "liang"} -> 2
      [] c = "san"            -> 3
      [] c = "si"             -> 4
      [] c = "wu"             -> 5
      [] c = "liu"            -> 6
      [] c = "qi"             -> 7
      [] c = "ba"             -> 8
      [] c = "jiu"            -> 9

DigitChar(n) == <<"0", "1", "2", "3", "4", "5", "6", "7", "8", "9">>[n + 1]

\* str(n) of a natural number
RECURSIVE IntToText(_)
IntToText(n) ==
    IF n < 10 THEN <<DigitChar(n)>>
    ELSE Append(IntToText(n \div 10), DigitChar(n % 10))

\* [CJK \d \.] of the percent regex
PERCENT_BODY == CJK \cup ASCII_DIGITS \cup {"."}

\* the loop of percent_replace over num_str, result so far in result
RECURSIVE PercentLoop(_, _)
PercentLoop(num_str, result) ==
    IF num_str = <<>> THEN result
    ELSE LET c == Head(num_str)
             r1 == IF result = <<>> THEN <<"1">> ELSE result
             next == IF c \in CN_DIGITS THEN Append(result, DigitChar(cn_nums(c)))
                     ELSE IF c = "shi"
                          THEN (IF Len(r1) = 1 THEN Append(r1, "0") ELSE r1)
                     ELSE IF c = "dian" THEN Append(result, ".")
                     ELSE Append(result, c)
         IN  PercentLoop(Tail(num_str), next)

percent_replace(num_str) == Append(PercentLoop(num_str, <<>>), "%")

\* re.sub(r'bai fen zhi([CJK\d\.]+)', percent_replace, text) from index i
RECURSIVE SubPercentFrom(_, _)
SubPercentFrom(s, i) ==
    IF i > Len(s) THEN <<>>
    ELSE IF /\ i + 3 <= Len(s)
            /\ s[i] = "bai" /\ s[i + 1] = "fen" /\ s[i + 2] = "zhi"
            /\ s[i + 3] \in PERCENT_BODY
         THEN LET e == ClassEnd(s, PERCENT_BODY, i + 3)
              IN  percent_replace(SubSeq(s, i + 3, e - 1)) \o SubPercentFrom(s, e)
         ELSE <<s[i]>> \o SubPercentFrom(s, i + 1)

SubPercent(s) == SubPercentFrom(s, 1)

\* the character class of the year regex
YEAR_DIGITS == {"ling", "yi", "er", "san", "si", "wu", "liu", "qi", "ba", "jiu", "O"}

RECURSIVE MapDigits(_)
MapDigits(s) ==
    IF s = <<>> THEN <<>>
    ELSE IF Head(s) \in CN_DIGITS
         THEN <<DigitChar(cn_nums(Head(s)))>> \o MapDigits(Tail(s))
         ELSE MapDigits(Tail(s))

year_replace(year_cn) == Append(MapDigits(year_cn), "nian")

\* re.sub(r'([year digits]{4})nian', year_replace, text) from index i
RECURSIVE SubYearFrom(_, _)
SubYearFrom(s, i) ==
    IF i > Len(s) THEN <<>>
    ELSE IF /\ i + 4 <= Len(s)
            /\ \A k \in 0..3 : s[i + k] \in YEAR_DIGITS
            /\ s[i + 4] = "nian"
         THEN year_replace(SubSeq(s, i, i + 3)) \o SubYearFrom(s, i + 5)
         ELSE <<s[i]>> \o SubYearFrom(s, i + 1)

SubYear(s) == SubYearFrom(s, 1)

\* the integer loop of decimal_replace (withQian) and unit_replace (without);
\* acc = <<int_num, temp>>
RECURSIVE PlaceLoop(_, _, _)
PlaceLoop(num_cn, acc, withQian) ==
    IF num_cn = <<>> THEN acc[1] + acc[2]
    ELSE LET c == Head(num_cn)
             t == IF acc[2] = 0 THEN 1 ELSE acc[2]
             next == IF c \in CN_DIGITS THEN <<acc[1], cn_nums(c)>>
                     ELSE IF c = "shi" THEN <<acc[1] + t * 10, 0>>
                     ELSE IF c = "bai" THEN <<acc[1] + acc[2] * 100, 0>>
                     ELSE IF c = "qian" /\ withQian THEN <<acc[1] + acc[2] * 1000, 0>>
                     ELSE acc
         IN  PlaceLoop(Tail(num_cn), next, withQian)

decimal_replace(int_part, dec_part) ==
    IntToText(PlaceLoop(int_part, <<0, 0>>, TRUE)) \o <<".">> \o MapDigits(dec_part)

\* the two character classes of the decimal regex; the second one differs
\* between the copies: [...\\d] in asr_service, [...0-9] in funasr
DECIMAL_INT == {"yi", "er", "san", "si", "wu", "liu", "qi", "ba", "jiu",
                "shi", "bai", "qian", "liang"}

DECIMAL_FRAC(m) ==
    {"yi", "er", "san", "si", "wu", "liu", "qi", "ba", "jiu", "ling", "O"}
    \cup (IF m = "asr_service" THEN {"\\", "d"} ELSE ASCII_DIGITS)

\* re.sub(r'([int]+)dian([frac]+)', decimal_replace, text) from index i
RECURSIVE SubDecimalFrom(_, _, _)
SubDecimalFrom(s, m, i) ==
    IF i > Len(s) THEN <<>>
    ELSE LET e == ClassEnd(s, DECIMAL_INT, i)
             f == ClassEnd(s, DECIMAL_FRAC(m), e + 1)
         IN  IF /\ e > i
                /\ e + 1 <= Len(s)
                /\ s[e] = "dian"
                /\ f > e + 1
             THEN decimal_replace(SubSeq(s, i, e - 1), SubSeq(s, e + 1, f - 1))
                  \o SubDecimalFrom(s, m, f)
             ELSE <<s[i]>> \o SubDecimalFrom(s, m, i + 1)

SubDecimal(s, m) == SubDecimalFrom(s, m, 1)

\* variant: the loop of decimal_replace, which also knows qian
unit_replace_WithQian(num_cn, unit) ==
    Append(IntToText(PlaceLoop(num_cn, <<0, 0>>, TRUE)), unit)

unit_replace(num_cn, unit) ==
    Append(IntToText(PlaceLoop(num_cn, <<0, 0>>, FALSE)), unit)

\* the character class and the units of the magnitude-unit regex
UNIT_NUM == DECIMAL_INT \cup {"ling", "O"}

UNITS == {"yi4", "wan", "jia", "ge", "ren"}

\* re.sub(r'([num]+)(unit)', unit_replace, text) from index i
RECURSIVE SubUnitFrom(_, _)
SubUnitFrom(s, i) ==
    IF i > Len(s) THEN <<>>
    ELSE LET e == ClassEnd(s, UNIT_NUM, i)
         IN  IF e > i /\ e <= Len(s) /\ s[e] \in UNITS
             THEN unit_replace(SubSeq(s, i, e - 1), s[e]) \o SubUnitFrom(s, e + 1)
             ELSE <<s[i]>> \o SubUnitFrom(s, i + 1)

SubUnit(s) == SubUnitFrom(s, 1)

apply_itn(s, m) == SubUnit(SubDecimal(SubYear(SubPercent(s)), m))

----------------------------------------------------------------------------
(* the punctuation step of postprocess                                     *)

TIDY_SEP == {"FWCOMMA", "DUN"}

\* re.sub(r'[FWCOMMA DUN]{2,}', FWCOMMA, text) from index i
RECURSIVE SubCommaRunsFrom(_, _)
SubCommaRunsFrom(s, i) ==
    IF i > Len(s) THEN <<>>
    ELSE LET e == ClassEnd(s, TIDY_SEP, i)
         IN  IF e - i >= 2 THEN <<"FWCOMMA">> \o SubCommaRunsFrom(s, e)
             ELSE <<s[i]>> \o SubCommaRunsFrom(s, i + 1)

\* variant: {2} instead of {2,}, the separators are replaced pair by pair
RECURSIVE SubCommaPairsFrom(_, _)
SubCommaPairsFrom(s, i) ==
    IF i > Len(s) THEN <<>>
    ELSE IF i + 1 <= Len(s) /\ s[i] \in TIDY_SEP /\ s[i + 1] \in TIDY_SEP
         THEN <<"FWCOMMA">> \o SubCommaPairsFrom(s, i + 2)
         ELSE <<s[i]>> \o SubCommaPairsFrom(s, i + 1)

SubCommaRuns_Pairs(s) == SubCommaPairsFrom(s, 1)

SubCommaRuns(s) == SubCommaRunsFrom(s, 1)

\* variant: the pattern is written with the ASCII comma
SubTrailingComma_Ascii(s) ==
    LET n == Len(s)
    IN  IF n >= 1 /\ s[n] = "," THEN [s EXCEPT ![n] = "FWSTOP"]
        ELSE IF n >= 2 /\ s[n] = "\n" /\ s[n - 1] = ","
             THEN [s EXCEPT ![n - 1] = "FWSTOP"]
        ELSE s

\* re.sub(r'FWCOMMA$', FWSTOP, text): $ is the end of the text, or the place
\* before a newline that ends the text
SubTrailingComma(s) ==
    LET n == Len(s)
    IN  IF n >= 1 /\ s[n] = "FWCOMMA" THEN [s EXCEPT ![n] = "FWSTOP"]
        ELSE IF n >= 2 /\ s[n] = "\n" /\ s[n - 1] = "FWCOMMA"
             THEN [s EXCEPT ![n - 1] = "FWSTOP"]
        ELSE s

tidy(s) == Strip(SubTrailingComma(SubCommaRuns(s)))

\* postprocess as one function
postprocess(s, flag, ord, m) ==
    LET t2 == merge_repetitions(clean_filler_words(s, ord))
        t3 == IF flag THEN apply_itn(t2, m) ELSE t2
    IN  tidy(t3)

----------------------------------------------------------------------------
(* merge_speaker_segments: a segment is a dictionary, a function whose     *)
(* domain is a subset of {"start", "end", "speaker", "text"}               *)

None == "None"

\* the 2.0 of the merge test, in seconds
MERGE_GAP == 2

\* d.get(k, default)
Get(d, k, default) == IF k \in DOMAIN d THEN d[k] ELSE default

\* d[k] = v
Put(d, k, v) == [x \in DOMAIN d \cup {k} |-> IF x = k THEN v ELSE d[x]]

\* variant: the comparison is <= instead of <
MergeTest_Le(seg, current) ==
    /\ Get(seg, "speaker", None) = Get(current, "speaker", None)
    /\ Get(seg, "start", 0) - Get(current, "end", 0) <= MERGE_GAP

\* variant: the gap is measured from the start of the current turn
MergeTest_FromStart(seg, current) ==
    /\ Get(seg, "speaker", None) = Get(current, "speaker", None)
    /\ Get(seg, "start", 0) - Get(current, "start", 0) < MERGE_GAP

\* the condition of the if statement
MergeTest(seg, current) ==
    /\ Get(seg, "speaker", None) = Get(current, "speaker", None)
    /\ Get(seg, "start", 0) - Get(current, "end", 0) < MERGE_GAP

\* variant: the end of the folded segment is written under the key 'start'
Fold_ToStart(current, seg) ==
    Put(Put(current, "start", Get(seg, "end", current["end"])),
        "text", Get(current, "text", <<>>) \o Get(seg, "text", <<>>))

\* the two assignments of the if branch; current['end'], the default of
\* seg.get('end', current['end']), is evaluated before the call, so current
\* must have the key
Fold(current, seg) ==
    Put(Put(current, "end", Get(seg, "end", current["end"])),
        "text", Get(current, "text", <<>>) \o Get(seg, "text", <<>>))

\* The for loop over segments[1:], at index i (1-based index into the
\* caller's list input), with the accumulator current and the list out.
\* alias is the index of the input dictionary that current is the same
\* object as, 0 when current is a copy: an assignment to current is then
\* also seen in the caller's list.
RECURSIVE MergeLoop(_, _, _, _, _)
MergeLoop(input, i, current, alias, out) ==
    IF i > Len(input)
    THEN [status |-> "return", value |-> Append(out, current), input |-> input]
    ELSE LET seg == input[i]
         IN  IF MergeTest(seg, current)
             THEN IF "end" \notin DOMAIN current
                  THEN [status |-> "KeyError", value |-> <<>>, input |-> input]
                  ELSE LET folded == Fold(current, seg)
                       IN  MergeLoop(IF alias = 0 THEN input
                                     ELSE [input EXCEPT ![alias] = folded],
                                     i + 1, folded, alias, out)
             ELSE MergeLoop(input, i + 1, seg, 0, Append(out, current))

\* variant: the guard for the empty list is missing, segments[0] raises
merge_speaker_segments_NoGuard(segs) ==
    IF segs = <<>> THEN [status |-> "IndexError", value |-> <<>>, input |-> segs]
    ELSE MergeLoop(segs, 2, segs[1], 0, <<>>)

\* variant: current = segments[0], without .copy()
merge_speaker_segments_NoCopy(segs) ==
    IF segs = <<>> THEN [status |-> "return", value |-> <<>>, input |-> segs]
    ELSE MergeLoop(segs, 2, segs[1], 1, <<>>)

\* variant: merged.append(current) after the loop is missing
merge_speaker_segments_NoFinal(segs) ==
    IF segs = <<>> THEN [status |-> "return", value |-> <<>>, input |-> segs]
    ELSE LET r == MergeLoop(segs, 2, segs[1], 0, <<>>)
         IN  IF r.status # "return" THEN r
             ELSE [r EXCEPT !.value = SubSeq(r.value, 1, Len(r.value) - 1)]

merge_speaker_segments(segs) ==
    IF segs = <<>> THEN [status |-> "return", value |-> <<>>, input |-> segs]
    ELSE MergeLoop(segs, 2, segs[1], 0, <<>>)

----------------------------------------------------------------------------
(* Bounds and input sets                                                   *)

MaxCallLen == 2
MaxCallSegs == 1
MaxProcLen == 4
MaxCleanLen == 5
MaxCollapseLen == 6
MaxItnLen == 3
MaxYearLen == 6
MaxDecimalLen == 4
MaxUnitLen == 5
MaxTidyLen == 5
MaxMergeSegs == 3
MaxLooseSegs == 2
MaxRequests == 2
MaxPortLen == 3

Modules == {"asr_service", "funasr"}

\* The iteration order of a set of str is fixed within one process and differs
\* between processes (hash randomisation).  Only the relative order of the
\* filler words that occur in a text matters: the orders below are all the
\* orders of the two filler words of the input alphabets, each followed by the
\* eight others.
OtherFillers == <<"e", "ai", "e2", "o", "o2", "ya", "ei", "ai2">>

Orders == {<<"en", "a">> \o OtherFillers, <<"a", "en">> \o OtherFillers}

CallAlphabet == {"en", "FWCOMMA", "dui", " "}

CallSegments ==
    {[start |-> t[1], end |-> t[2], speaker |-> sp, text |-> <<"x">>] :
        t \in {<<0, 1>>, <<2, 3>>, <<3, 4>>}, sp \in {"A", None}}

ProcAlphabet == {"en", "FWCOMMA", " ", "dui", "shi", "ge"}

CleanAlphabet == {"en", "a", "FWCOMMA", ",", " ", "hao"}

CollapseAlphabet == {"dui", "zhi1", "dao", "x"}

ItnAlphabet == {"shi", "er", "dian", "de", "ge", " "}

ItnInputs ==
    {pre \o mid \o post :
        pre \in {<<>>, <<"de">>, <<"x">>},
        mid \in {<<>>, <<"bai", "fen", "zhi">>},
        post \in SeqsUpTo(ItnAlphabet, MaxItnLen)}

YearAlphabet == {"er", "ling", "nian", "dao"}

DecimalAlphabet == {"san", "shi", "dian", "wu", "5", "d"}

UnitAlphabet == {"er", "shi", "bai", "qian", "ge", "x"}

TidyAlphabet == {"FWCOMMA", "DUN", " ", "hao", "en"}

\* times in seconds: the gaps 1 (below 2.0), 2 (exactly 2.0) and 3 occur
TimePoints == {0, 1, 3}

\* well-typed segments with start <= end, before their text is set; the
\* speaker is a name, None, or the key is missing
TimeSpans == {t \in TimePoints \X TimePoints : t[1] <= t[2]}

BaseSegments ==
    {[start |-> t[1], end |-> t[2], speaker |-> sp] :
        t \in TimeSpans, sp \in {"A", None}}
    \cup {[start |-> t[1], end |-> t[2]] : t \in TimeSpans}

\* the text of the i-th segment of a list
SegText(i) == <<<<"x">>, <<"y">>, <<"z">>, <<"w">>, <<"v">>>>[i]

\* dictionaries that lack any of the four keys
LooseSegments ==
    {[k \in keys |-> r[k]] :
        r \in {[start |-> t, end |-> 1, speaker |-> "A", text |-> <<"x">>] :
                   t \in {0, 3}},
        keys \in SUBSET {"start", "end", "speaker", "text"}}

\* the transcripts of the in-flight requests: one for each pass to act on
RequestTexts ==
    {<<"en", "FWCOMMA", "hao">>,
     <<"dui", "dui", "dui", "FWCOMMA">>,
     <<"shi", "ge">>}

\* the segment lists handed to merge_speaker_segments meanwhile
RequestSegments ==
    {<<[start |-> 0, end |-> 1, speaker |-> "A", text |-> <<"x">>],
       [start |-> t, end |-> 3, speaker |-> "A", text |-> <<"y">>]>> : t \in {1, 3}}

\* what a request carries as file (an upload within or over the size limit)
\* and as audio_url (a URL that can or cannot be downloaded)
Uploads == {None, "small", "large"}

AudioUrls == {None, "reachable", "unreachable"}

\* the fixed iteration order of a process that only merges
AnOrder == <<"en", "a">> \o OtherFillers

----------------------------------------------------------------------------
(* State machine                                                           *)

NoMerge == mpc = "idle" /\ segments = <<>> /\ merged = <<>>

\* no transcription request is in flight
NoRequests == requests = <<>>

\* the /asr/transcribe handler before a request
IdleHandler ==
    [pc |-> "idle", file |-> None, audio_url |-> None, status |-> 0,
     after_health |-> FALSE]

\* no service process runs
NoService ==
    /\ server = [app |-> "none", installed |-> FALSE, phase |-> "off",
                 model |-> None, health |-> 0]
    /\ handler = IdleHandler
    /\ tmp_dirs = {}

\* no text call is made
NoText ==
    /\ call = "none" /\ pc = "idle" /\ raw = <<>> /\ text = <<>>
    /\ apply_itn_flag = TRUE /\ order = AnOrder /\ module = "asr_service"

\* a caller that hands its transcript to postprocess and its segments to
\* merge_speaker_segments
Init ==
    /\ call = "postprocess"
    /\ pc = "clean"
    /\ raw \in SeqsUpTo(CallAlphabet, MaxCallLen)
    /\ text = raw
    /\ apply_itn_flag \in BOOLEAN
    /\ order \in Orders
    /\ module \in Modules
    /\ mpc = "call"
    /\ segments \in SeqsUpTo(CallSegments, MaxCallSegs)
    /\ merged = <<>>
    /\ NoRequests
    /\ NoService

InitProcess ==
    /\ call = "postprocess"
    /\ pc = "clean"
    /\ raw \in SeqsUpTo(ProcAlphabet, MaxProcLen)
    /\ text = raw
    /\ apply_itn_flag \in BOOLEAN
    /\ order \in Orders
    /\ module \in Modules
    /\ NoMerge
    /\ NoRequests
    /\ NoService

InitClean ==
    /\ call = "clean_filler_words"
    /\ pc = "call"
    /\ raw \in SeqsUpTo(CleanAlphabet, MaxCleanLen)
    /\ text = raw
    /\ apply_itn_flag = TRUE
    /\ order \in Orders
    /\ module = "asr_service"
    /\ NoMerge
    /\ NoRequests
    /\ NoService

InitCollapse ==
    /\ call = "merge_repetitions"
    /\ pc = "call"
    /\ raw \in SeqsUpTo(CollapseAlphabet, MaxCollapseLen)
    /\ text = raw
    /\ apply_itn_flag = TRUE
    /\ order \in Orders
    /\ module = "asr_service"
    /\ NoMerge
    /\ NoRequests
    /\ NoService

InitItn ==
    /\ call = "apply_itn"
    /\ pc = "call"
    /\ raw \in ItnInputs
    /\ text = raw
    /\ apply_itn_flag = TRUE
    /\ order \in Orders
    /\ module \in Modules
    /\ NoMerge
    /\ NoRequests
    /\ NoService

\* apply_itn on texts of numerals, nian and other characters
InitYear ==
    /\ call = "apply_itn"
    /\ pc = "call"
    /\ raw \in SeqsUpTo(YearAlphabet, MaxYearLen)
    /\ text = raw
    /\ apply_itn_flag = TRUE
    /\ order \in Orders
    /\ module \in Modules
    /\ NoMerge
    /\ NoRequests
    /\ NoService

\* apply_itn on texts of spoken numbers, dian, ASCII digits and letters
InitDecimal ==
    /\ call = "apply_itn"
    /\ pc = "call"
    /\ raw \in SeqsUpTo(DecimalAlphabet, MaxDecimalLen)
    /\ text = raw
    /\ apply_itn_flag = TRUE
    /\ order \in Orders
    /\ module \in Modules
    /\ NoMerge
    /\ NoRequests
    /\ NoService

\* apply_itn on texts of spoken numbers, units and other characters
InitUnit ==
    /\ call = "apply_itn"
    /\ pc = "call"
    /\ raw \in SeqsUpTo(UnitAlphabet, MaxUnitLen)
    /\ text = raw
    /\ apply_itn_flag = TRUE
    /\ order \in Orders
    /\ module = "asr_service"
    /\ NoMerge
    /\ NoRequests
    /\ NoService

\* postprocess on texts with both comma-class separators and whitespace
InitTidy ==
    /\ call = "postprocess"
    /\ pc = "clean"
    /\ raw \in SeqsUpTo(TidyAlphabet, MaxTidyLen)
    /\ text = raw
    /\ apply_itn_flag \in BOOLEAN
    /\ order \in Orders
    /\ module = "asr_service"
    /\ NoMerge
    /\ NoRequests
    /\ NoService

\* merge_speaker_segments on a list of at most MaxMergeSegs well-typed
\* segments, in any order of their times
InitMerge ==
    /\ NoText
    /\ mpc = "call"
    /\ \E k \in 0..MaxMergeSegs : \E f \in [1..k -> BaseSegments] :
           segments = [i \in 1..k |-> Put(f[i], "text", SegText(i))]
    /\ merged = <<>>
    /\ NoRequests
    /\ NoService

\* merge_speaker_segments on a list of at most MaxLooseSegs dictionaries
\* that lack keys
InitLoose ==
    /\ NoText
    /\ mpc = "call"
    /\ \E k \in 0..MaxLooseSegs : segments \in [1..k -> LooseSegments]
    /\ merged = <<>>
    /\ NoRequests
    /\ NoService

\* at most MaxRequests transcription requests have reached step 5 of the
\* handler, each with its own transcript and flag, while a merge call runs
InitConcurrent ==
    /\ call = "none" /\ pc = "idle" /\ raw = <<>> /\ text = <<>>
    /\ apply_itn_flag = TRUE
    /\ order \in Orders
    /\ module = "asr_service"
    /\ mpc = "call"
    /\ segments \in RequestSegments
    /\ merged = <<>>
    /\ \E k \in 1..MaxRequests :
           requests \in [1..k -> {[pc |-> "clean", raw |-> t, text |-> t, flag |-> b] :
                                     t \in RequestTexts, b \in BOOLEAN}]
    /\ NoService

\* a service process of either app starts, with or without the funasr
\* package installed
InitService ==
    /\ call = "none" /\ pc = "idle" /\ raw = <<>> /\ text = <<>>
    /\ apply_itn_flag = TRUE
    /\ order = AnOrder
    /\ server \in {[app |-> a, installed |-> i, phase |-> "starting",
                     model |-> None, health |-> 0] : a \in Modules, i \in BOOLEAN}
    /\ module = server.app
    /\ NoMerge
    /\ NoRequests
    /\ handler = IdleHandler
    /\ tmp_dirs = {}

\* postprocess of either copy on texts with dian, ASCII digits and letters
InitPort ==
    /\ call = "postprocess"
    /\ pc = "clean"
    /\ raw \in SeqsUpTo(DecimalAlphabet, MaxPortLen)
    /\ text = raw
    /\ apply_itn_flag \in BOOLEAN
    /\ order \in Orders
    /\ module \in Modules
    /\ NoMerge
    /\ NoRequests
    /\ NoService

TextFrame ==
    UNCHANGED <<call, raw, apply_itn_flag, order, module, mpc, segments, merged, requests,
                server, handler, tmp_dirs>>

\* a direct call of clean_filler_words(text)
CleanFillerWords ==
    /\ call = "clean_filler_words" /\ pc = "call"
    /\ text' = clean_filler_words(text, order)
    /\ pc' = "return"
    /\ TextFrame

\* a direct call of merge_repetitions(text)
MergeRepetitions ==
    /\ call = "merge_repetitions" /\ pc = "call"
    /\ text' = merge_repetitions(text)
    /\ pc' = "return"
    /\ TextFrame

\* a direct call of apply_itn(text)
ApplyItn ==
    /\ call = "apply_itn" /\ pc = "call"
    /\ text' = apply_itn(text, module)
    /\ pc' = "return"
    /\ TextFrame

\* postprocess, statement by statement
PostprocessClean ==
    /\ call = "postprocess" /\ pc = "clean"
    /\ text' = clean_filler_words(text, order)
    /\ pc' = "collapse"
    /\ TextFrame

PostprocessCollapse ==
    /\ call = "postprocess" /\ pc = "collapse"
    /\ text' = merge_repetitions(text)
    /\ pc' = "itn"
    /\ TextFrame

\* variant: the flag is ignored
PostprocessItn_Always ==
    /\ call = "postprocess" /\ pc = "itn"
    /\ text' = apply_itn(text, module)
    /\ pc' = "tidy"
    /\ TextFrame

PostprocessItn ==
    /\ call = "postprocess" /\ pc = "itn"
    /\ text' = IF apply_itn_flag THEN apply_itn(text, module) ELSE text
    /\ pc' = "tidy"
    /\ TextFrame

PostprocessTidy ==
    /\ call = "postprocess" /\ pc = "tidy"
    /\ text' = tidy(text)
    /\ pc' = "return"
    /\ TextFrame

\* variant: text is a module-level variable, shared by all calls
Assign_Global(rs, r, t, p) ==
    [q \in DOMAIN rs |-> [rs[q] EXCEPT !.text = t, !.pc = IF q = r THEN p ELSE @]]

\* text = ... in the postprocess call of request r: text is a local variable
Assign(rs, r, t, p) == [rs EXCEPT ![r] = [@ EXCEPT !.text = t, !.pc = p]]

RequestFrame ==
    UNCHANGED <<call, pc, raw, text, apply_itn_flag, order, module, mpc, segments, merged,
                server, handler, tmp_dirs>>

\* the statements of postprocess, run by the call of request r
RequestClean(r) ==
    /\ requests[r].pc = "clean"
    /\ requests' = Assign(requests, r,
                          clean_filler_words(requests[r].text, order), "collapse")
    /\ RequestFrame

RequestCollapse(r) ==
    /\ requests[r].pc = "collapse"
    /\ requests' = Assign(requests, r, merge_repetitions(requests[r].text), "itn")
    /\ RequestFrame

RequestItn(r) ==
    /\ requests[r].pc = "itn"
    /\ requests' = Assign(requests, r,
                          IF requests[r].flag THEN apply_itn(requests[r].text, module)
                          ELSE requests[r].text,
                          "tidy")
    /\ RequestFrame

RequestTidy(r) ==
    /\ requests[r].pc = "tidy"
    /\ requests' = Assign(requests, r, tidy(requests[r].text), "return")
    /\ RequestFrame

ServiceFrame ==
    UNCHANGED <<call, pc, raw, text, apply_itn_flag, order, module, mpc, segments, merged,
                requests>>

\* lifespan, up to its yield.  funasr/main.py: the import of AutoModel was
\* tried at module level, and without the package the model stays None and
\* the service starts; asr_service/app.py imports the package here, and
\* without it the startup fails.  Loading the model can fail in both.
Lifespan ==
    /\ server.phase = "starting"
    /\ \E load_ok \in BOOLEAN :
           server' =
               IF server.app = "funasr" /\ ~server.installed
               THEN [server EXCEPT !.phase = "serving"]
               ELSE IF server.installed /\ load_ok
                    THEN [server EXCEPT !.phase = "serving", !.model = "loaded"]
                    ELSE [server EXCEPT !.phase = "failed"]
    /\ UNCHANGED <<handler, tmp_dirs>>
    /\ ServiceFrame

\* GET /health: answered with status code 200 whatever the model is
HealthCheck ==
    /\ server.phase = "serving"
    /\ server' = [server EXCEPT !.health = 200]
    /\ UNCHANGED <<handler, tmp_dirs>>
    /\ ServiceFrame

\* POST /asr/transcribe arrives
TranscribeReceive ==
    /\ server.phase = "serving"
    /\ handler.pc = "idle"
    /\ \E f \in Uploads, u \in AudioUrls :
           handler' = [pc |-> "validate", file |-> f, audio_url |-> u, status |-> 0,
                       after_health |-> server.health = 200]
    /\ UNCHANGED <<server, tmp_dirs>>
    /\ ServiceFrame

\* the two checks at the head of transcribe
Validate(h, srv) ==
    IF srv.model = None THEN [h EXCEPT !.status = 503, !.pc = "done"]
    ELSE IF h.file = None /\ h.audio_url = None
         THEN [h EXCEPT !.status = 400, !.pc = "done"]
    ELSE [h EXCEPT !.pc = "get_audio"]

\* the checks and, when they pass, tempfile.mkdtemp
TranscribeValidate ==
    /\ handler.pc = "validate"
    /\ handler' = Validate(handler, server)
    /\ tmp_dirs' = IF handler'.pc = "get_audio" THEN tmp_dirs \cup {"tmp_dir"}
                   ELSE tmp_dirs
    /\ UNCHANGED server
    /\ ServiceFrame

\* step 1: the upload is written chunk by chunk (413 over the limit), or the
\* URL is downloaded (400 when that fails); file takes precedence
TranscribeGetAudio ==
    /\ handler.pc = "get_audio"
    /\ handler' =
           IF handler.file # None
           THEN IF handler.file = "large"
                THEN [handler EXCEPT !.status = 413, !.pc = "finally"]
                ELSE [handler EXCEPT !.pc = "ffmpeg"]
           ELSE IF handler.audio_url = "unreachable"
                THEN [handler EXCEPT !.status = 400, !.pc = "finally"]
                ELSE [handler EXCEPT !.pc = "ffmpeg"]
    /\ UNCHANGED <<server, tmp_dirs>>
    /\ ServiceFrame

\* step 2: ffmpeg converts the audio, or fails (500)
TranscribeFfmpeg ==
    /\ handler.pc = "ffmpeg"
    /\ \E ok \in BOOLEAN :
           handler' = IF ok THEN [handler EXCEPT !.pc = "generate"]
                      ELSE [handler EXCEPT !.status = 500, !.pc = "finally"]
    /\ UNCHANGED <<server, tmp_dirs>>
    /\ ServiceFrame

\* model.generate in a thread; an exception is not caught by the handler and
\* is answered with 500
TranscribeGenerate ==
    /\ handler.pc = "generate"
    /\ \E ok \in BOOLEAN :
           handler' = IF ok THEN [handler EXCEPT !.pc = "respond"]
                      ELSE [handler EXCEPT !.status = 500, !.pc = "finally"]
    /\ UNCHANGED <<server, tmp_dirs>>
    /\ ServiceFrame

\* the result is parsed, post-processed and returned
TranscribeRespond ==
    /\ handler.pc = "respond"
    /\ handler' = [handler EXCEPT !.status = 200, !.pc = "finally"]
    /\ UNCHANGED <<server, tmp_dirs>>
    /\ ServiceFrame

\* variant: the directory is removed at the end of the try block, after the
\* response is built, and not in a finally clause
TranscribeFinally_OnSuccess ==
    /\ handler.pc = "finally"
    /\ handler' = [handler EXCEPT !.pc = "done"]
    /\ tmp_dirs' = IF handler.status = 200 THEN tmp_dirs \ {"tmp_dir"} ELSE tmp_dirs
    /\ UNCHANGED server
    /\ ServiceFrame

\* the finally clause, entered from the return and from every raise inside
\* the try block: file.close() and shutil.rmtree(tmp_dir)
TranscribeFinally ==
    /\ handler.pc = "finally"
    /\ handler' = [handler EXCEPT !.pc = "done"]
    /\ tmp_dirs' = tmp_dirs \ {"tmp_dir"}
    /\ UNCHANGED server
    /\ ServiceFrame

\* the answer is sent; the next request can come
TranscribeReturn ==
    /\ handler.pc = "done"
    /\ handler' = IdleHandler
    /\ UNCHANGED <<server, tmp_dirs>>
    /\ ServiceFrame

\* a call of merge_speaker_segments(segments)
MergeSpeakerSegments ==
    /\ mpc = "call"
    /\ LET r == merge_speaker_segments(segments)
       IN  mpc' = r.status /\ merged' = r.value /\ segments' = r.input
    /\ UNCHANGED <<call, pc, raw, text, apply_itn_flag, order, module, requests,
                   server, handler, tmp_dirs>>

NextProcess ==
    \/ PostprocessClean
    \/ PostprocessCollapse
    \/ PostprocessItn
    \/ PostprocessTidy

Next ==
    \/ NextProcess
    \/ MergeSpeakerSegments

NextClean == CleanFillerWords

NextCollapse == MergeRepetitions

NextItn == ApplyItn

NextMerge == MergeSpeakerSegments

\* the calls run interleaved, statement by statement
NextConcurrent ==
    \/ \E r \in DOMAIN requests : RequestClean(r)
    \/ \E r \in DOMAIN requests : RequestCollapse(r)
    \/ \E r \in DOMAIN requests : RequestItn(r)
    \/ \E r \in DOMAIN requests : RequestTidy(r)
    \/ MergeSpeakerSegments

Spec == Init /\ [][Next]_vars

SpecProcess == InitProcess /\ [][NextProcess]_vars

SpecClean == InitClean /\ [][NextClean]_vars

SpecCollapse == InitCollapse /\ [][NextCollapse]_vars

SpecItn == InitItn /\ [][NextItn]_vars

SpecYear == InitYear /\ [][NextItn]_vars

SpecDecimal == InitDecimal /\ [][NextItn]_vars

SpecUnit == InitUnit /\ [][NextItn]_vars

SpecTidy == InitTidy /\ [][NextProcess]_vars

SpecPort == InitPort /\ [][NextProcess]_vars

SpecMerge == InitMerge /\ [][NextMerge]_vars

SpecLoose == InitLoose /\ [][NextMerge]_vars

NextService ==
    \/ Lifespan
    \/ HealthCheck
    \/ TranscribeReceive
    \/ TranscribeValidate
    \/ TranscribeGetAudio
    \/ TranscribeFfmpeg
    \/ TranscribeGenerate
    \/ TranscribeRespond
    \/ TranscribeFinally
    \/ TranscribeReturn

SpecService == InitService /\ [][NextService]_vars

SpecConcurrent == InitConcurrent /\ [][NextConcurrent]_vars

----------------------------------------------------------------------------
(* Properties                                                              *)

\* the characters the ITN patterns read as (part of) a spoken number
SpokenNumerals == CN_DIGITS \cup {"shi", "bai", "qian"}

\* some 1-or-2-character CJK sequence stands 3 or more times in a row in s
HasStutter(s) ==
    \E i \in 1..Len(s), n \in 1..2 :
        /\ i + n - 1 <= Len(s)
        /\ \A k \in i..(i + n - 1) : s[k] \in CJK
        /\ CountReps(s, SubSeq(s, i, i + n - 1), i) >= 3

Chars(s) == {s[i] : i \in 1..Len(s)}

\* no filler word, no stutter, no spoken numeral
Normalized(s) ==
    /\ Chars(s) \cap FILLER_WORDS = {}
    /\ Chars(s) \cap SpokenNumerals = {}
    /\ ~HasStutter(s)

\* C1: postprocess applies clean, collapse, ITN (only when the flag is true)
\* and the punctuation step in this order, each on the result of the one
\* before; with the flag false the result is tidy(collapse(clean(t))).
C1_FixedOrder ==
    call = "postprocess" =>
        LET t1 == clean_filler_words(raw, order)
            t2 == merge_repetitions(t1)
            t3 == IF apply_itn_flag THEN apply_itn(t2, module) ELSE t2
        IN  /\ pc = "clean" => text = raw
            /\ pc = "collapse" => text = t1
            /\ pc = "itn" => text = t2
            /\ pc = "tidy" => text = t3
            /\ pc = "return" => text = tidy(t3)
            /\ (pc = "return" /\ ~apply_itn_flag) => text = tidy(t2)

\* a finished call with the flag false on a text that ITN would have rewritten
C1_Witness ==
    /\ call = "postprocess" /\ pc = "return" /\ ~apply_itn_flag
    /\ LET t2 == merge_repetitions(clean_filler_words(raw, order))
       IN  apply_itn(t2, module) # t2 /\ text = tidy(t2) /\ text # raw

\* C2: the empty text gives the empty text for both values of the flag, and
\* the empty segment list gives the empty list, neither with an error.
C2_EmptyInEmptyOut ==
    /\ (call = "postprocess" /\ raw = <<>>) => text = <<>>
    /\ (segments = <<>> /\ mpc # "call") => (mpc = "return" /\ merged = <<>>)

\* both calls have returned on empty input
C2_Witness ==
    /\ call = "postprocess" /\ raw = <<>> /\ pc = "return" /\ text = <<>>
    /\ segments = <<>> /\ mpc = "return" /\ merged = <<>>

\* C3: on a text without filler word, stutter and spoken numeral, running
\* postprocess on the result of postprocess gives the same result.
C3_Idempotent ==
    (call = "postprocess" /\ pc = "return" /\ apply_itn_flag /\ Normalized(raw))
        => postprocess(text, TRUE, order, module) = text

\* a normalized text that the first run did change
C3_Witness ==
    /\ call = "postprocess" /\ pc = "return" /\ apply_itn_flag /\ Normalized(raw)
    /\ text # raw /\ text # <<>>

\* s begins with a filler word
BeginsWithFiller(s) == s # <<>> /\ s[1] \in FILLER_WORDS

\* what stands after the first character of s, one optional separator and the
\* whitespace behind it
AfterLeading(s) ==
    LET j == IF Len(s) >= 2 /\ s[2] \in SEP THEN 3 ELSE 2
    IN  SubSeq(s, SkipWs(s, j), Len(s))

\* separator, filler word, separator stand next to each other in s
HasSandwich(s) ==
    \E i \in 1..(Len(s) - 2) :
        s[i] \in SEP /\ s[i + 1] \in FILLER_WORDS /\ s[i + 2] \in SEP

\* any two filler words of s have at least two other characters between them
FillersApart(s) ==
    \A i, j \in 1..Len(s) :
        (i < j /\ s[i] \in FILLER_WORDS /\ s[j] \in FILLER_WORDS) => j - i >= 3

\* two equal filler words stand next to each other in s
HasFillerPair(s) ==
    \E i \in 1..(Len(s) - 1) : s[i] \in FILLER_WORDS /\ s[i + 1] = s[i]

\* every occurrence of f in s has another f next to it
OnlyInRuns(s, f) ==
    \A i \in 1..Len(s) :
        s[i] = f => \/ (i > 1 /\ s[i - 1] = f)
                    \/ (i < Len(s) /\ s[i + 1] = f)

\* C4 (as claimed): the result of clean_filler_words is the same for every
\* iteration order of the filler set.
C4_OrderIndependent ==
    (call = "clean_filler_words" /\ pc = "return")
        => \A o \in Orders : text = clean_filler_words(raw, o)

\* C5 (as claimed): the result of clean_filler_words never begins with a
\* filler word.
C5_NeverBeginsWithFiller ==
    (call = "clean_filler_words" /\ pc = "return") => ~BeginsWithFiller(text)

\* C5 (amended): when the text begins with a filler word and what follows
\* it, its optional separator and the whitespace does not begin with a filler
\* word, the result does not begin with a filler word; "en FWCOMMA hao hao"
\* gives "hao hao".
C5_LeadingFillerRemoved ==
    (call = "clean_filler_words" /\ pc = "return") =>
        /\ (BeginsWithFiller(raw) /\ ~BeginsWithFiller(AfterLeading(raw)))
               => ~BeginsWithFiller(text)
        /\ raw = <<"en", "FWCOMMA", "hao", "hao">> => text = <<"hao", "hao">>

\* a leading filler word with separator and whitespace has been removed
C5_Witness ==
    /\ call = "clean_filler_words" /\ pc = "return"
    /\ raw = <<"en", "FWCOMMA", " ", "hao", "a">>
    /\ text = <<"hao", "a">>

\* C6 (as claimed): the result of clean_filler_words never contains
\* separator, filler word, separator.
C6_NoSandwichLeft ==
    (call = "clean_filler_words" /\ pc = "return") => ~HasSandwich(text)

\* C6 (amended): when any two filler words of the text have at least two
\* other characters between them, the result contains no separator, filler
\* word, separator.
C6_SandwichRemoved ==
    (call = "clean_filler_words" /\ pc = "return" /\ FillersApart(raw))
        => ~HasSandwich(text)

\* a sandwiched filler word has been replaced, with its separators, by one
\* separator
C6_Witness ==
    /\ call = "clean_filler_words" /\ pc = "return"
    /\ raw = <<"hao", "FWCOMMA", "en", "FWCOMMA", "hao">>
    /\ text = <<"hao", "FWCOMMA", "hao">>

\* C7 (as claimed): the result of clean_filler_words never contains two
\* adjacent equal filler words.
C7_NoFillerPairLeft ==
    (call = "clean_filler_words" /\ pc = "return") => ~HasFillerPair(text)

\* C7 (amended): when at most one kind of filler word occurs in the text, the
\* result contains no two adjacent equal filler words; a run is removed
\* completely, so when the text does not begin with that filler word and
\* every occurrence of it stands in a run, none is left.
C7_RunsRemoved ==
    (call = "clean_filler_words" /\ pc = "return"
        /\ Cardinality(Chars(raw) \cap FILLER_WORDS) <= 1)
        => /\ ~HasFillerPair(text)
           /\ \A f \in FILLER_WORDS :
                  (~(raw # <<>> /\ raw[1] = f) /\ OnlyInRuns(raw, f))
                      => f \notin Chars(text)

\* a run of one filler word has been removed completely
C7_Witness ==
    /\ call = "clean_filler_words" /\ pc = "return"
    /\ raw = <<"hao", "en", "en", "en", "hao">>
    /\ text = <<"hao", "hao">>

\* s is a 1-or-2-character CJK word
ShortWord(s) == Len(s) \in 1..2 /\ Chars(s) \subseteq CJK

\* w written k times
RECURSIVE Power(_, _)
Power(w, k) == IF k = 0 THEN <<>> ELSE w \o Power(w, k - 1)

C9_TwiceCollapsed ==
    (call = "merge_repetitions" /\ pc = "return") =>
        \A w \in SeqsUpTo(CollapseAlphabet, 2) :
            (ShortWord(w) /\ raw = w \o w /\ ~HasStutter(raw)) => text = w

\* C9 (amended): a short CJK word that stands exactly twice in a row is left
\* as it is; a text without a sequence repeated 3 or more times is returned
\* unchanged.
C9_TwiceKept ==
    (call = "merge_repetitions" /\ pc = "return" /\ ~HasStutter(raw))
        => text = raw

\* a one-character and a two-character word, each twice in a row, returned
\* unchanged
C9_Witness ==
    /\ call = "merge_repetitions" /\ pc = "return"
    /\ raw = <<"dui", "dui", "zhi1", "dao", "zhi1", "dao">>
    /\ text = raw

\* the digits of the spoken numbers the percent rule is claimed to handle
PercentExamples ==
    {<<<<"shi">>, <<"1", "0">>>>,
     <<<<"er">>, <<"2">>>>,
     <<<<"er", "dian", "er">>, <<"2", ".", "2">>>>}

\* C10 (as claimed): "bai fen zhi" followed by a spoken number becomes the
\* digits of the number directly followed by "%", and the text after the
\* number stays behind the "%", unchanged.
C10_PercentKeepsTail ==
    (call = "apply_itn" /\ pc = "return") =>
        \A e \in PercentExamples, tail \in SeqsUpTo({"de", " "}, MaxItnLen) :
            raw = <<"bai", "fen", "zhi">> \o e[1] \o tail
                => text = e[2] \o <<"%">> \o tail

\* the number of year numerals that stand directly before index i of s
RECURSIVE NumeralsBefore(_, _)
NumeralsBefore(s, i) ==
    IF i > 1 /\ s[i - 1] \in YEAR_DIGITS THEN 1 + NumeralsBefore(s, i - 1) ELSE 0

\* the indices of nian in s
YearMarks(s) == {i \in 1..Len(s) : s[i] = "nian"}

\* C11 (as claimed): the year rule rewrites a run of exactly 4 numerals
\* directly followed by nian to 4 digits and nian, and leaves a text alone
\* in which every nian follows a run of 3 or fewer, or of 5 or more numerals.
C11_YearExactlyFour ==
    (call = "apply_itn" /\ pc = "return") =>
        /\ \A i \in YearMarks(raw) :
               (YearMarks(raw) = {i} /\ NumeralsBefore(raw, i) = 4)
                   => text = SubSeq(raw, 1, i - 5)
                             \o MapDigits(SubSeq(raw, i - 4, i - 1))
                             \o SubSeq(raw, i, Len(raw))
        /\ (\A i \in YearMarks(raw) : NumeralsBefore(raw, i) # 4) => text = raw

\* the fractional digits as claimed: a numeral gives its digit, an ASCII
\* digit stays
FracDigit(c) == IF c \in CN_DIGITS THEN DigitChar(cn_nums(c)) ELSE c

\* C12 (as claimed): when the whole text is an integer part, dian and a
\* fractional part that the decimal pattern of the running copy matches, the
\* result is the positional value of the integer part, ".", and one digit
\* for each character of the fractional part, numerals mapped and ASCII
\* digits kept.
C12_OneDigitPerFracChar ==
    (call = "apply_itn" /\ pc = "return") =>
        \A k \in 2..(Len(raw) - 1) :
            LET ip == SubSeq(raw, 1, k - 1)
                fp == SubSeq(raw, k + 1, Len(raw))
                n  == IntToText(PlaceLoop(ip, <<0, 0>>, TRUE))
            IN  (/\ raw[k] = "dian"
                 /\ Chars(ip) \subseteq DECIMAL_INT
                 /\ Chars(fp) \subseteq DECIMAL_FRAC(module))
                    => /\ Len(text) = Len(n) + 1 + Len(fp)
                       /\ SubSeq(text, 1, Len(n) + 1) = Append(n, ".")
                       /\ \A j \in 1..Len(fp) :
                              /\ text[Len(n) + 1 + j] \in ASCII_DIGITS
                              /\ text[Len(n) + 1 + j] = FracDigit(fp[j])

\* the digit that counts at index i of the spoken number n: the numeral last
\* read before i, 0 after shi or bai and at the start; qian is no place value
\* and is passed over
RECURSIVE DigitBefore(_, _)
DigitBefore(n, i) ==
    IF i <= 1 THEN 0
    ELSE IF n[i - 1] \in CN_DIGITS THEN cn_nums(n[i - 1])
    ELSE IF n[i - 1] = "qian" THEN DigitBefore(n, i - 1)
    ELSE 0

\* the sum of f[x] over the finite set S
RECURSIVE SumOver(_, _)
SumOver(S, f) ==
    IF S = {} THEN 0
    ELSE LET x == CHOOSE y \in S : TRUE IN f[x] + SumOver(S \ {x}, f)

\* the value of the spoken number n with the place values shi and bai: each
\* shi counts its digit (1 when there is none) times 10, each bai its digit
\* times 100, and a trailing digit counts once
UnitValue(n) ==
    LET places == {i \in 1..Len(n) : n[i] \in {"shi", "bai"}}
        worth  == [i \in places |->
                     IF n[i] = "shi"
                     THEN 10 * (IF DigitBefore(n, i) = 0 THEN 1 ELSE DigitBefore(n, i))
                     ELSE 100 * DigitBefore(n, i)]
    IN  SumOver(places, worth) + DigitBefore(n, Len(n) + 1)

\* the number of characters of the unit pattern's number class that stand
\* directly before index i of s
RECURSIVE UnitNumsBefore(_, _)
UnitNumsBefore(s, i) ==
    IF i > 1 /\ s[i - 1] \in UNIT_NUM THEN 1 + UnitNumsBefore(s, i - 1) ELSE 0

\* s with every spoken number that stands directly before a unit written in
\* digits, unit by unit
RECURSIVE UnitsRewritten(_)
UnitsRewritten(s) ==
    IF Chars(s) \cap UNITS = {} THEN s
    ELSE LET j == CHOOSE k \in 1..Len(s) :
                      s[k] \in UNITS /\ \A m \in 1..(k - 1) : s[m] \notin UNITS
             r == UnitNumsBefore(s, j)
             head == IF r = 0 THEN SubSeq(s, 1, j)
                     ELSE SubSeq(s, 1, j - r - 1)
                          \o IntToText(UnitValue(SubSeq(s, j - r, j - 1)))
                          \o <<s[j]>>
         IN  head \o UnitsRewritten(SubSeq(s, j + 1, Len(s)))

\* s without the characters of class
RECURSIVE Without(_, _)
Without(s, class) ==
    IF s = <<>> THEN <<>>
    ELSE IF Head(s) \in class THEN Without(Tail(s), class)
         ELSE <<Head(s)>> \o Without(Tail(s), class)

\* C13: the unit rule writes every spoken number that stands directly before
\* a unit as the digits of its value, evaluated with the place values shi
\* and bai only, followed by the unit; units and all other characters that
\* are not part of a number stay where they are, in their order.
C13_UnitKept ==
    (call = "apply_itn" /\ pc = "return") =>
        /\ text = UnitsRewritten(raw)
        /\ Without(text, ASCII_DIGITS \cup UNIT_NUM) = Without(raw, UNIT_NUM)

\* "er bai er shi ge" has become "220 ge"
C13_Witness ==
    /\ call = "apply_itn" /\ pc = "return"
    /\ raw = <<"er", "bai", "er", "shi", "ge">>
    /\ text = <<"2", "2", "0", "ge">>

\* two comma-class separators stand next to each other in s
HasSeparatorPair(s) ==
    \E i \in 1..(Len(s) - 1) : s[i] \in TIDY_SEP /\ s[i + 1] \in TIDY_SEP

EndsWith(s, c) == s # <<>> /\ s[Len(s)] = c

\* C14: what postprocess returns, for either flag value, has no two adjacent
\* comma-class separators, does not end with the full-width comma (a
\* trailing one has become the full stop: "hao hao" and three commas give
\* "hao hao" and the full stop) and has no whitespace at either end.
C14_TidyPostcondition ==
    (call = "postprocess" /\ pc = "return") =>
        /\ ~HasSeparatorPair(text)
        /\ ~EndsWith(text, "FWCOMMA")
        /\ text = <<>> \/ (text[1] \notin WS /\ text[Len(text)] \notin WS)
        /\ LET t2 == merge_repetitions(clean_filler_words(raw, order))
               t3 == IF apply_itn_flag THEN apply_itn(t2, module) ELSE t2
           IN  EndsWith(t3, "FWCOMMA") => EndsWith(text, "FWSTOP")
        /\ raw = <<"hao", "hao", "FWCOMMA", "FWCOMMA", "FWCOMMA">>
               => text = <<"hao", "hao", "FWSTOP">>

\* a run of both separators at the end of the text has become the full stop
C14_Witness ==
    /\ call = "postprocess" /\ pc = "return"
    /\ raw = <<" ", "hao", "FWCOMMA", "DUN", " ">>
    /\ text = <<"hao", "FWSTOP">>

SpeakerOf(seg) == IF "speaker" \in DOMAIN seg THEN seg["speaker"] ELSE None

\* segment i of segs does not continue the turn of segment i - 1: another
\* speaker, or 2.0 seconds or more after its end
TurnStarts(segs) ==
    {1} \cup {i \in 2..Len(segs) :
                 \/ SpeakerOf(segs[i]) # SpeakerOf(segs[i - 1])
                 \/ segs[i]["start"] - segs[i - 1]["end"] >= 2}

\* the last segment of the turn that starts at segment g
TurnEnd(segs, g) ==
    LET later == {i \in TurnStarts(segs) : i > g}
    IN  IF later = {} THEN Len(segs)
        ELSE (CHOOSE i \in later : \A j \in later : i <= j) - 1

\* the texts of segments g..h, one after the other
RECURSIVE TextsOf(_, _, _)
TextsOf(segs, g, h) ==
    IF g > h THEN <<>> ELSE segs[g]["text"] \o TextsOf(segs, g + 1, h)

\* C15: a segment is folded into the current turn exactly when it has the
\* speaker of the turn (no speaker and None count as equal) and starts less
\* than 2.0 seconds after the turn's end.  So the result has one segment for
\* each turn of the input, in order: the first segment of the turn with its
\* end set to the end of the last and its text to the texts of the turn, one
\* after the other; a turn of one segment is that segment, unchanged.
C15_FoldExactlyWhen ==
    (mpc # "call" /\ segments # <<>>) =>
        /\ mpc = "return"
        /\ Len(merged) = Cardinality(TurnStarts(segments))
        /\ \A g \in TurnStarts(segments) :
               LET k == Cardinality({i \in TurnStarts(segments) : i <= g})
                   h == TurnEnd(segments, g)
               IN  /\ merged[k] = [segments[g] EXCEPT
                                       !["end"] = segments[h]["end"],
                                       !["text"] = TextsOf(segments, g, h)]
                   /\ h = g => merged[k] = segments[g]

\* a segment without speaker is folded into a turn whose speaker is None,
\* 1 second after its end, and a third one exactly 2 seconds later is not
C15_Witness ==
    /\ mpc = "return"
    /\ segments = <<[start |-> 0, end |-> 0, speaker |-> None, text |-> <<"x">>],
                    [start |-> 1, end |-> 1, text |-> <<"y">>],
                    [start |-> 3, end |-> 3, speaker |-> None, text |-> <<"z">>]>>
    /\ merged = <<[start |-> 0, end |-> 1, speaker |-> None, text |-> <<"x", "y">>],
                  [start |-> 3, end |-> 3, speaker |-> None, text |-> <<"z">>]>>

\* segs is ordered by start and every segment has start <= end
WellFormed(segs) ==
    /\ \A i \in 1..Len(segs) : segs[i]["start"] <= segs[i]["end"]
    /\ \A i \in 1..(Len(segs) - 1) : segs[i]["start"] <= segs[i + 1]["start"]

\* C16: when the input is ordered by start and every input segment has
\* start <= end, the same is true of the output.
C16_WellFormedKept ==
    (mpc = "return" /\ WellFormed(segments)) => WellFormed(merged)

\* a turn whose first segment ends after the second one, and a third segment
\* that starts a new turn
C16_Witness ==
    /\ mpc = "return"
    /\ WellFormed(segments)
    /\ segments = <<[start |-> 0, end |-> 3, speaker |-> "A", text |-> <<"x">>],
                    [start |-> 1, end |-> 1, speaker |-> "A", text |-> <<"y">>],
                    [start |-> 3, end |-> 3, speaker |-> "A", text |-> <<"z">>]>>
    /\ merged = <<[start |-> 0, end |-> 1, speaker |-> "A", text |-> <<"x", "y">>],
                  [start |-> 3, end |-> 3, speaker |-> "A", text |-> <<"z">>]>>

\* C17: the call leaves the caller's list as it was: the same length, and
\* every segment with the same start, end, speaker and text, also a segment
\* that started a turn or was folded into one.
C17_InputUnchanged == [][segments' = segments]_vars

\* the call has returned after folding the second segment into the turn of
\* the first, and the caller's two segments are as they were
C17_Witness ==
    /\ mpc = "return"
    /\ segments = <<[start |-> 0, end |-> 1, speaker |-> "A", text |-> <<"x">>],
                    [start |-> 1, end |-> 3, speaker |-> "A", text |-> <<"y">>]>>
    /\ merged = <<[start |-> 0, end |-> 3, speaker |-> "A", text |-> <<"x", "y">>]>>

\* seg with the defaults of the claim for its missing keys
Defaulted(seg) ==
    [start |-> Get(seg, "start", 0), end |-> Get(seg, "end", 0),
     speaker |-> Get(seg, "speaker", None), text |-> Get(seg, "text", <<>>)]

\* C18 (as claimed): on dictionaries that lack keys the call always returns
\* a list, and a missing start, end, speaker, text counts as 0, 0, None and
\* the empty text, in the merge test and in what is written to the
\* accumulator: of two segments that pass the test with these defaults, one
\* segment is returned, with the second one's end (0 when missing) and both
\* texts.
C18_NeverFails ==
    mpc # "call" =>
        /\ mpc = "return"
        /\ (Len(segments) = 2 /\ MergeTest(Defaulted(segments[2]), Defaulted(segments[1])))
               => /\ Len(merged) = 1
                  /\ Get(merged[1], "end", 0) = Defaulted(segments[2])["end"]
                  /\ Get(merged[1], "text", <<>>)
                         = Defaulted(segments[1])["text"] \o Defaulted(segments[2])["text"]

\* every finished call has returned what it returns when run alone
ReturnsAsAlone ==
    /\ \A r \in DOMAIN requests :
           requests[r].pc = "return"
               => requests[r].text
                      = postprocess(requests[r].raw, requests[r].flag, order, module)
    /\ mpc # "call"
           => /\ mpc = "return"
              /\ merged = <<[segments[1] EXCEPT !["end"] = segments[2]["end"],
                                                !["text"] = <<"x", "y">>]>>
                 \/ (segments[2]["start"] = 3 /\ merged = segments)

\* C19: when the postprocess calls of several requests and a merge call run
\* interleaved, statement by statement, each call returns what it returns
\* when run alone on its own input, and no step changes the shared filler
\* set (its iteration order included) or another call's input.
C19_NoInterference ==
    /\ []ReturnsAsAlone
    /\ [][/\ order' = order
          /\ segments' = segments
          /\ \A r \in DOMAIN requests :
                 /\ requests'[r].raw = requests[r].raw
                 /\ requests'[r].flag = requests[r].flag]_vars

\* the first request has returned a rewritten text while the second, with
\* another transcript, is between two passes and the merge call has returned
C19_Witness ==
    /\ Len(requests) = 2
    /\ requests[1].pc = "return" /\ requests[1].text # requests[1].raw
    /\ requests[2].pc = "itn" /\ requests[2].raw # requests[1].raw
    /\ requests[2].text # requests[2].raw
    /\ mpc = "return"

\* C20 (as claimed): once /health has been answered with 200, a POST to
\* /asr/transcribe with neither file nor audio_url is answered with 400,
\* whether the model is loaded or not.
C20_NoInput400 ==
    (/\ handler.pc = "done" /\ handler.after_health
     /\ handler.file = None /\ handler.audio_url = None)
        => handler.status = 400

\* C21 (as claimed): what postprocess of one copy returns is what postprocess
\* of the other copy returns for the same text and flag, also when dian is
\* followed by ASCII digits or by a backslash or the letter d.
C21_CopiesAgree ==
    (call = "postprocess" /\ pc = "return") =>
        \A m \in Modules : text = postprocess(raw, apply_itn_flag, order, m)

\* segment i + 1 of segs has the speaker of segment i and starts less than
\* 2.0 seconds after its end
WouldMerge(segs, i) ==
    /\ SpeakerOf(segs[i + 1]) = SpeakerOf(segs[i])
    /\ segs[i + 1]["start"] - segs[i]["end"] < 2

\* C22: in the list a call returns no two consecutive segments have the same
\* speaker and a gap below 2.0 seconds, and merging the returned list again
\* returns it unchanged.
C22_MergeIdempotent ==
    mpc = "return" =>
        /\ \A i \in 1..(Len(merged) - 1) : ~WouldMerge(merged, i)
        /\ merge_speaker_segments(merged).status = "return"
        /\ merge_speaker_segments(merged).value = merged

\* two segments were folded, and the turn that follows has the same speaker
\* and starts exactly 2.0 seconds after the end of the folded turn
C22_Witness ==
    /\ mpc = "return"
    /\ Len(segments) = 3
    /\ WouldMerge(segments, 1)
    /\ Len(merged) = 2
    /\ SpeakerOf(merged[1]) = SpeakerOf(merged[2])
    /\ merged[2]["start"] - merged[1]["end"] = 2
    /\ merge_speaker_segments(merged).value = merged

\* C23: for a list that is not empty the call returns between 1 and
\* Len(segments) segments, the last of them is the accumulator as the last
\* input segment left it, and the texts of the returned segments, one after
\* the other, are the texts of the input segments, one after the other.
C23_NothingDropped ==
    (mpc = "return" /\ segments # <<>>) =>
        /\ Len(merged) \in 1..Len(segments)
        /\ merged[Len(merged)]["end"] = segments[Len(segments)]["end"]
        /\ TextsOf(merged, 1, Len(merged)) = TextsOf(segments, 1, Len(segments))

\* the last two of three segments were folded into the final accumulator
C23_Witness ==
    /\ mpc = "return"
    /\ Len(segments) = 3
    /\ Len(merged) = 2
    /\ merged[1] = segments[1]
    /\ merged[2]["text"] = segments[2]["text"] \o segments[3]["text"]
    /\ segments[2]["text"] # <<>> /\ segments[3]["text"] # <<>>

\* the handler is inside the try block or its finally clause
InTry == handler.pc \in {"get_audio", "ffmpeg", "generate", "respond", "finally"}

\* C24: a request that passed the two checks has its temporary directory
\* while it is in the try block, and the directory is gone when the request
\* ends, whatever the answer: 200, 400 for a failed download, 413 for an
\* upload over the limit, 500 for ffmpeg or the model.  A request answered
\* with 503 or 400 by the checks never had a directory.
C24_TmpDirRemoved ==
    /\ InTry => tmp_dirs = {"tmp_dir"}
    /\ handler.pc \in {"idle", "validate", "done"} => tmp_dirs = {}

\* a request with an upload over the limit went through the try block and
\* ends with 413 and no directory
C24_Witness ==
    /\ handler.pc = "done"
    /\ handler.file = "large"
    /\ handler.status = 413
    /\ tmp_dirs = {}

====
